---- MODULE Spec2Model ----
(***************************************************************************)
(* A model of dvidclient.volume_client.VolumeClient: one client instance   *)
(* (one HTTPConnection, one threading.Lock), its construction, caller      *)
(* threads that run retrieve_subvolume / modify_subvolume on it, a caller  *)
(* of the class methods create_volume / query_datasets_info, and the       *)
(* volume server at the other end of the connections.                      *)
(*                                                                         *)
(* Arrays are records [shape, at]: `at` maps a 0-based coordinate tuple in *)
(* client order (channel first) to the element there.  A byte stream is a  *)
(* sequence of numbers in 0..255.  A rest query is the record of the three *)
(* underscore-joined segments of the path (dims, roi shape, start); the    *)
(* uuid and data name segments are the same for every request of a client. *)
(***************************************************************************)
EXTENDS Integers, Sequences, FiniteSets, TLC

\* Number of caller threads sharing the client.
NumThreads == 2

Threads == 1..NumThreads

\* Bytes per element: the test volume is numpy.uint32.
ItemSize == 4

\* response.status values the client compares against.
StatusOK == 200
StatusNoContent == 204
StatusServerError == 500

\* Channels of the small volume the data claims are checked on.
NumChannels == 4

\* metainfo.shape of that volume (client order, channel first): 2 x 2 voxels
\* of NumChannels channels.
VolumeShape == <<NumChannels, 2, 2>>

\* metainfo.shape of the volume of tests/test_volume_client.py, client
\* (Fortran) order: axistags "tzyxc" over data of shape (4,10,100,200,3).
TestShape == <<3, 200, 100, 10, 4>>

\* The shape as the specification's path-construction property words it.
WordedShape == <<4, 10, 100, 200>>

\* uuid and data_name the client of tests/test_volume_client.py is built with.
ClientUuid == "abcde"
ClientDataName == "indices_data"

\* start, stop of test_cutout.
TestStart == <<0, 50, 5, 9, 0>>
TestStop == <<3, 150, 20, 10, 4>>

-----------------------------------------------------------------------------
(* Sequences and arrays *)

RECURSIVE Prod(_)
Prod(s) == IF s = <<>> THEN 1 ELSE Head(s) * Prod(Tail(s))

RECURSIVE Pow256(_)
Pow256(j) == IF j = 0 THEN 1 ELSE 256 * Pow256(j - 1)

\* numpy.delete(s, i): the sequence without its element at 0-based index i.
NumpyDelete(s, i) ==
    [k \in 1..(Len(s) - 1) |-> IF k <= i THEN s[k] ELSE s[k + 1]]

\* Elementwise stop - start of two vectors of one length.
VecSub(a, b) == [k \in 1..Len(a) |-> a[k] - b[k]]

VecAdd(a, b) == [k \in 1..Len(a) |-> a[k] + b[k]]

\* All 0-based coordinates of an array of shape shp.
Coords(shp) ==
    IF \E k \in 1..Len(shp) : shp[k] <= 0 THEN {}
    ELSE LET m == CHOOSE x \in {shp[k] : k \in 1..Len(shp)} :
                      \A k \in 1..Len(shp) : shp[k] <= x
         IN  {c \in [1..Len(shp) -> 0..(m - 1)] :
                  \A k \in 1..Len(shp) : c[k] < shp[k]}

\* Position of coordinate c in the linearization of an array of shape shp:
\* the first (channel) axis varies fastest.
RECURSIVE Ravel(_, _)
Ravel(c, shp) ==
    IF c = <<>> THEN 0
    ELSE Head(c) + Head(shp) * Ravel(Tail(c), Tail(shp))

RECURSIVE Unravel(_, _)
Unravel(e, shp) ==
    IF shp = <<>> THEN <<>>
    ELSE <<e % Head(shp)>> \o Unravel(e \div Head(shp), Tail(shp))

NoData == [shape |-> <<>>, at |-> <<>>]

\* An array of shape shp whose elements are all different: base + position.
Ramp(shp, base) ==
    [shape |-> shp, at |-> [c \in Coords(shp) |-> base + Ravel(c, shp)]]

-----------------------------------------------------------------------------
(* VolumeCodec: bytes <-> array, in storage linearization order *)

\* VolumeCodec.encode_from_vigra_array: the elements in linearization order,
\* each as ItemSize little-endian bytes.
encode_from_vigra_array(arr) ==
    [k \in 1..(Prod(arr.shape) * ItemSize) |->
        LET e == (k - 1) \div ItemSize
            j == (k - 1) % ItemSize
        IN  (arr.at[Unravel(e, arr.shape)] \div Pow256(j)) % 256]

ElementAt(stream, e) ==
    LET F[j \in 0..ItemSize] ==
            IF j = 0 THEN 0
            ELSE F[j - 1] + stream[e * ItemSize + j] * Pow256(j - 1)
    IN  F[ItemSize]

\* VolumeCodec.decode_to_vigra_array: reads exactly the byte count shp implies
\* and leaves the rest of the stream unread; fails when the stream ends early.
decode_to_vigra_array(stream, shp) ==
    LET n == Prod(shp) * ItemSize
    IN  IF Len(stream) < n
        THEN [ok |-> FALSE, vdata |-> NoData, rest |-> <<>>]
        ELSE [ok |-> TRUE,
              vdata |-> [shape |-> shp,
                         at |-> [c \in Coords(shp) |->
                                    ElementAt(stream, Ravel(c, shp))]],
              rest |-> SubSeq(stream, n + 1, Len(stream))]

-----------------------------------------------------------------------------
(* The volume server at the other end of the connection *)

\* The region a rest query names lies in a volume of shape shp.
QueryInRange(shp, q) ==
    /\ Len(q.roi_shape) = Len(shp) - 1
    /\ Len(q.start) = Len(shp) - 1
    /\ \A k \in 1..(Len(shp) - 1) :
          /\ q.start[k] >= 0
          /\ q.roi_shape[k] >= 1
          /\ q.start[k] + q.roi_shape[k] <= shp[k + 1]

\* All channels of the stored volume v over the region of q.
ServerCutout(v, shp, q) ==
    LET rshape == <<shp[1]>> \o q.roi_shape
    IN  [shape |-> rshape,
         at |-> [c \in Coords(rshape) |->
                    v[<<c[1]>> \o VecAdd(Tail(c), q.start)]]]

\* The stored volume v with the region of q overwritten by arr.
ServerStore(v, q, arr) ==
    [c \in DOMAIN v |->
        IF \A k \in 1..Len(q.start) :
              /\ q.start[k] <= c[k + 1]
              /\ c[k + 1] < q.start[k] + q.roi_shape[k]
        THEN arr.at[<<c[1]>> \o VecSub(Tail(c), q.start)]
        ELSE v[c]]

ErrorBody == <<69, 82, 82>>

\* The reason phrase the server sends with a status.
ReasonOf(status) ==
    CASE status = 200 -> "OK"
      [] status = 204 -> "No Content"
      [] status = 404 -> "Not Found"
      [] OTHER -> "Internal Server Error"

\* The datasets-info document of a server holding the listed datasets: the
\* entries between brackets.
DatasetsJson(listing) == <<91>> \o listing \o <<93>>

\* The listing a server answers query_datasets_info with.
ServerDatasets == <<1, 2>>

\* The schema document of a volume of shape shp: the axis lengths between
\* braces.
SchemaJson(shp) == <<123>> \o shp \o <<125>>

\* MetaInfo.create_from_json: the metadata a schema document describes;
\* fails on a body that is no schema document.
create_from_json(body) ==
    IF Len(body) >= 2 /\ body[1] = 123 /\ body[Len(body)] = 125
    THEN [ok |-> TRUE, shape |-> SubSeq(body, 2, Len(body) - 1)]
    ELSE [ok |-> FALSE, shape |-> <<>>]

-----------------------------------------------------------------------------
(* State *)

VARIABLES
    browser,        \* the ContentsBrowser dialog: its fields and widgets
    client,         \* the instance's lifecycle: "Uninitialized", "Requested"
                    \* (schema request sent), "Connected" or "Failed"
    connection,     \* self._connection: the connection object's id, 0 if none
    conns,          \* every HTTPConnection created so far: "open" or "closed"
    unread,         \* self._connection: bytes of closed responses never read
    admin,          \* the caller of create_volume / query_datasets_info
    shape,          \* self.metainfo.shape (client order)
    channelIndex,   \* self.metainfo.axistags.channelIndex
    lock,           \* self._lock: 0 when free, else the thread holding it
    sent,           \* self._connection: requests written, not yet served
    replies,        \* self._connection: responses the server wrote, unread
    vol,            \* the server's stored volume
    lastPost,       \* the call whose POST the server applied last
    pc,             \* each thread's position in its current call
    cur,            \* each thread's current call: arguments and locals
    todo,           \* each thread's calls still to make
    invoked,        \* history: calls in the order they were invoked
    acquired,       \* history: calls in the order they took the lock
    sentLog,        \* history: calls in the order their request was sent
    returned        \* history: how each finished call ended

vars == <<browser, client, connection, conns, unread, admin, shape,
          channelIndex, lock, sent, replies, vol, lastPost, pc, cur, todo,
          invoked, acquired, sentLog, returned>>

NoCall == [op |-> "none", start |-> <<>>, stop |-> <<>>, new_data |-> NoData]

NoQuery == [dims |-> <<>>, roi_shape |-> <<>>, start |-> <<>>]

NoCur == [id |-> <<0, 0>>, call |-> NoCall, rest_query |-> NoQuery,
          body |-> <<>>, nreq |-> 0, nacq |-> 0]

NoUrl == [segments |-> <<>>, query |-> NoQuery]

NoResp == [status |-> 0, reason |-> "", body |-> <<>>, reqOf |-> <<0, 0>>,
           url |-> NoUrl, conn |-> 0, snap |-> <<>>, lastPost |-> NoCall]

NoErr == [action |-> "", status |-> 0, reason |-> "", body |-> <<>>]

\* No dialog is open.
NoBrowser == [mode |-> "none"]

\* A call of one of the two class methods; `supported` tells whether the
\* metainfo passed to create_volume has a dtype the server has a type for.
NoAdminCall == [op |-> "none", supported |-> TRUE]

\* The class-method caller at rest, with the calls it has yet to make.
AdminIdle(calls, done) ==
    [pc |-> "idle", todo |-> calls, call |-> NoAdminCall, conn |-> 0,
     nreq |-> 0, resp |-> NoResp, done |-> done]

-----------------------------------------------------------------------------
(* VolumeClient *)

\* The assert of line 169 (stop <= shape) left out.
FormatQueryStopUnchecked(start, stop) ==
    LET lengths == Len(start) = Len(stop) /\ Len(stop) = Len(shape)
        valid ==
            /\ lengths
            /\ \A k \in 1..Len(shape) : start[k] < stop[k]
            /\ \A k \in 1..Len(shape) : start[k] >= 0
            /\ \A k \in 1..Len(shape) : start[k] < shape[k]
        dstart == NumpyDelete(start, channelIndex)
        dstop == NumpyDelete(stop, channelIndex)
        num_dims == Len(shape)
    IN  IF ~valid THEN [ok |-> FALSE, query |-> NoQuery]
        ELSE [ok |-> TRUE,
              query |-> [dims |-> [k \in 1..(num_dims - 1) |-> k - 1],
                         roi_shape |-> VecSub(dstop, dstart),
                         start |-> dstart]]

\* The query formatted without dropping the channel entries, the dims
\* enumerated as before.
FormatQueryChannelKept(start, stop) ==
    IF Len(start) = Len(stop) /\ Len(stop) = Len(shape)
       /\ \A k \in 1..Len(shape) :
              0 <= start[k] /\ start[k] < stop[k] /\ stop[k] <= shape[k]
    THEN [ok |-> TRUE,
          query |-> [dims |-> [k \in 1..(Len(shape) - 1) |-> k - 1],
                     roi_shape |-> VecSub(stop, start),
                     start |-> start]]
    ELSE [ok |-> FALSE, query |-> NoQuery]

\* VolumeClient._format_subvolume_rest_query: ok is FALSE when an assert
\* of lines 164-169 fails.
FormatQuery(start, stop) ==
    LET lengths == Len(start) = Len(stop) /\ Len(stop) = Len(shape)
        valid ==
            /\ lengths
            /\ \A k \in 1..Len(shape) : start[k] < stop[k]
            /\ \A k \in 1..Len(shape) : start[k] >= 0
            /\ \A k \in 1..Len(shape) : start[k] < shape[k]
            /\ \A k \in 1..Len(shape) : stop[k] <= shape[k]
        dstart == NumpyDelete(start, channelIndex)
        dstop == NumpyDelete(stop, channelIndex)
        num_dims == Len(shape)
    IN  IF ~valid THEN [ok |-> FALSE, query |-> NoQuery]
        ELSE [ok |-> TRUE,
              query |-> [dims |-> [k \in 1..(num_dims - 1) |-> k - 1],
                         roi_shape |-> VecSub(dstop, dstart),
                         start |-> dstart]]

\* The asserts compiled away: no channel range is refused.
IncludesAllChannelsUnchecked(start, stop) == TRUE

\* The asserts of modify_subvolume, lines 142-143.
IncludesAllChannels(start, stop) ==
    /\ start[1] = 0
    /\ stop[1] = shape[1]

\* retrieve_subvolume, lines 125-126.
FullRoiShape(start, stop) ==
    [VecSub(stop, start) EXCEPT ![1] = shape[1]]

\* The decoded array returned as it is, all channels of it.
SelectChannelsUnsliced(vdata, start, stop) == vdata

\* The slice taken from channel 0 instead of start[0]: vdata[:stop[0]-start[0]].
SelectChannelsFromZero(vdata, start, stop) ==
    LET shp == [vdata.shape EXCEPT ![1] = stop[1] - start[1]]
    IN  [shape |-> shp, at |-> [c \in Coords(shp) |-> vdata.at[c]]]

\* The slice with its channels in reverse order: vdata[start[0]:stop[0]][::-1].
SelectChannelsReversed(vdata, start, stop) ==
    LET shp == [vdata.shape EXCEPT ![1] = stop[1] - start[1]]
    IN  [shape |-> shp,
         at |-> [c \in Coords(shp) |->
                    vdata.at[[c EXCEPT ![1] = stop[1] - 1 - @]]]]

\* retrieve_subvolume, line 139: vdata[start[0]:stop[0]].
SelectChannels(vdata, start, stop) ==
    LET a == start[1]
        b == stop[1]
        shp == [vdata.shape EXCEPT ![1] = b - a]
    IN  [shape |-> shp,
         at |-> [c \in Coords(shp) |-> vdata.at[[c EXCEPT ![1] = @ + a]]]]

\* The trailing read's result never looked at.
HasExcessIgnored(excess_data) == FALSE

\* retrieve_subvolume, lines 133-137: the trailing read finds excess data.
HasExcess(excess_data) == excess_data # <<>>

\* No lock around the request/response section.
CanAcquireUnguarded(holder) == TRUE

\* `with self._lock` (lines 117, 148) blocks until the lock is free.
CanAcquire(holder) == holder = 0

\* acquire()/release() without try/finally: an exception keeps the lock held.
LockKeptOnError(t, kind) == IF kind \in {"value", "ok"} THEN 0 ELSE t

\* Leaving the `with self._lock` block, by return or by exception, frees it.
LockOnExit(t, kind) == 0

\* Any 2xx status taken for success.
RetrieveOutcomeAny2xx(c, resp) ==
    IF resp.status \div 100 # 2
    THEN [kind |-> "ErrorResponse", value |-> NoData,
          err |-> [action |-> "subvolume query", status |-> resp.status,
                   reason |-> resp.reason, body |-> resp.body]]
    ELSE LET dec == decode_to_vigra_array(resp.body,
                                          FullRoiShape(c.start, c.stop))
         IN  IF ~dec.ok
             THEN [kind |-> "DecodeError", value |-> NoData, err |-> NoErr]
             ELSE IF HasExcess(dec.rest)
             THEN [kind |-> "Exception", value |-> NoData, err |-> NoErr]
             ELSE [kind |-> "value",
                   value |-> SelectChannels(dec.vdata, c.start, c.stop),
                   err |-> NoErr]

\* retrieve_subvolume, lines 119-139, on the response it got.
RetrieveOutcome(c, resp) ==
    IF resp.status # StatusOK
    THEN [kind |-> "ErrorResponse", value |-> NoData,
          err |-> [action |-> "subvolume query", status |-> resp.status,
                   reason |-> resp.reason, body |-> resp.body]]
    ELSE LET dec == decode_to_vigra_array(resp.body,
                                          FullRoiShape(c.start, c.stop))
         IN  IF ~dec.ok
             THEN [kind |-> "DecodeError", value |-> NoData, err |-> NoErr]
             ELSE IF HasExcess(dec.rest)
             THEN [kind |-> "Exception", value |-> NoData, err |-> NoErr]
             ELSE [kind |-> "value",
                   value |-> SelectChannels(dec.vdata, c.start, c.stop),
                   err |-> NoErr]

\* modify_subvolume, lines 151-157, on the response it got.
ModifyOutcome(c, resp) ==
    IF resp.status # StatusNoContent
    THEN [kind |-> "ErrorResponse", value |-> NoData,
          err |-> [action |-> "subvolume post", status |-> resp.status,
                   reason |-> resp.reason, body |-> resp.body]]
    ELSE [kind |-> "ok", value |-> NoData, err |-> NoErr]

\* The trailing read of line 133 left out.
RetrieveUnreadNoTrailingRead(c, resp) ==
    IF resp.status # StatusOK THEN <<>>
    ELSE decode_to_vigra_array(resp.body, FullRoiShape(c.start, c.stop)).rest

\* A failed call drops the connection and makes a new one for the next.
ReconnectOnError(kind) ==
    IF kind \in {"value", "ok"} THEN connection ELSE Len(conns) + 1

\* retrieve_subvolume and modify_subvolume (lines 109-157) use
\* self._connection and never assign it: whatever the outcome, the instance
\* holds the connection it held.
ConnectionOnExit(kind) == connection

\* retrieve_subvolume: the bytes of the response body still unread when the
\* `with closing(response)` block is left.  response.read() (lines 122,
\* 133) takes everything that is left; the decoder (line 127) leaves what
\* follows the array.
RetrieveUnread(c, resp) ==
    IF resp.status # StatusOK THEN <<>>
    ELSE LET dec == decode_to_vigra_array(resp.body,
                                          FullRoiShape(c.start, c.stop))
         IN  IF ~dec.ok THEN dec.rest ELSE <<>>

\* modify_subvolume: response.read() on both paths (lines 154, 157) takes
\* the whole body.
ModifyUnread(c, resp) == <<>>

\* The full path of a request (lines 183-188): the fixed segments, then the
\* three underscore-joined segments of the rest query.
PathSegments(q) ==
    [segments |-> <<"api", "node", ClientUuid, ClientDataName>>, query |-> q]

\* A request/response cycle tried a second time: the request goes out twice.
RequestsResent(t) ==
    LET r == [method |-> IF cur[t].call.op = "modify" THEN "POST" ELSE "GET",
              path |-> cur[t].rest_query,
              url |-> PathSegments(cur[t].rest_query),
              conn |-> connection,
              body |-> cur[t].body,
              id |-> cur[t].id,
              call |-> cur[t].call]
    IN  <<r, r>>

\* What one call writes to the connection: the one request of line 118
\* (GET) or lines 149-150 (POST, with the encoded body).
Requests(t) ==
    << [method |-> IF cur[t].call.op = "modify" THEN "POST" ELSE "GET",
        path |-> cur[t].rest_query,
        url |-> PathSegments(cur[t].rest_query),
        conn |-> connection,
        body |-> cur[t].body,
        id |-> cur[t].id,
        call |-> cur[t].call] >>

Entry(t, c, id, out, resp, nreq, nacq) ==
    [id |-> id, thread |-> t, call |-> c, kind |-> out.kind,
     value |-> out.value, err |-> out.err, resp |-> resp,
     nreq |-> nreq, nacq |-> nacq]

AssertionFailed == [kind |-> "AssertionError", value |-> NoData, err |-> NoErr]

\* The construction as a call, for the log of finished calls.
InitCall ==
    [op |-> "__init__", start |-> <<>>, stop |-> <<>>, new_data |-> NoData]

InitId == <<0, 1>>

\* __init__, lines 99-105, on the response to the schema request.
ConstructOutcome(resp) ==
    IF resp.status # StatusOK
    THEN [kind |-> "ErrorResponse", value |-> NoData,
          err |-> [action |-> "metainfo query", status |-> resp.status,
                   reason |-> resp.reason, body |-> resp.body]]
    ELSE IF ~create_from_json(resp.body).ok
    THEN [kind |-> "SchemaError", value |-> NoData, err |-> NoErr]
    ELSE [kind |-> "ok", value |-> NoData, err |-> NoErr]

\* The exception of a failed construction swallowed: the caller gets the
\* half-built instance.
StateAfterInitAlwaysConnected(kind) == "Connected"

\* The caller holds an instance only when __init__ returned; an exception
\* raised in it leaves the caller without one.
StateAfterInit(kind) == IF kind = "ok" THEN "Connected" ELSE "Failed"

\* VolumeClient(hostname, uuid, data_name), lines 91-97: the connection is
\* created and the schema request written to it.
Construct ==
    /\ client = "Uninitialized"
    /\ conns' = Append(conns, "open")
    /\ connection' = Len(conns) + 1
    /\ sent' = Append(sent,
                      [method |-> "GET",
                       path |-> NoQuery,
                       url |-> [segments |-> <<"api", "node", ClientUuid,
                                              ClientDataName, "schema">>,
                                query |-> NoQuery],
                       conn |-> Len(conns) + 1,
                       body |-> <<>>,
                       id |-> InitId,
                       call |-> InitCall])
    /\ client' = "Requested"
    /\ UNCHANGED <<browser, unread, admin, shape, channelIndex, lock, replies,
                   vol, lastPost, pc, cur, todo, invoked, acquired, sentLog,
                   returned>>

\* __init__, lines 99-107: the response is read; on status 200 the metadata
\* is parsed from it, the codec and the lock are made and the caller gets
\* the instance; otherwise the exception leaves the caller without one.
FinishConstruct ==
    /\ client = "Requested"
    /\ replies # <<>>
    /\ LET resp == Head(replies)
           out == ConstructOutcome(resp)
       IN  /\ returned' = Append(returned,
                  Entry(0, InitCall, InitId, out, resp, 1, 0))
           /\ client' = StateAfterInit(out.kind)
           /\ shape' = IF out.kind = "ok"
                       THEN create_from_json(resp.body).shape ELSE shape
    /\ replies' = Tail(replies)
    /\ lock' = 0
    /\ unread' = <<>>
    /\ UNCHANGED <<browser, connection, conns, admin, channelIndex, sent, vol,
                   lastPost, pc, cur, todo, invoked, acquired, sentLog>>

\* json.loads (line 76): the listing a well-formed document holds; ValueError
\* on anything else.
JsonLoads(body) ==
    IF Len(body) >= 2 /\ body[1] = 91 /\ body[Len(body)] = 93
    THEN [ok |-> TRUE, value |-> SubSeq(body, 2, Len(body) - 1)]
    ELSE [ok |-> FALSE, value |-> <<>>]

\* The check of the response text (lines 56-59) left out.
CreateOutcomeBodyIgnored(resp) ==
    IF resp.status # StatusNoContent
    THEN [kind |-> "ErrorResponse", value |-> <<>>,
          err |-> [action |-> "create new data", status |-> resp.status,
                   reason |-> resp.reason, body |-> resp.body]]
    ELSE [kind |-> "ok", value |-> <<>>, err |-> NoErr]

\* create_volume, lines 52-59, on the response it got.
CreateOutcome(resp) ==
    IF resp.status # StatusNoContent
    THEN [kind |-> "ErrorResponse", value |-> <<>>,
          err |-> [action |-> "create new data", status |-> resp.status,
                   reason |-> resp.reason, body |-> resp.body]]
    ELSE IF resp.body # <<>>
    THEN [kind |-> "Exception", value |-> <<>>, err |-> NoErr]
    ELSE [kind |-> "ok", value |-> <<>>, err |-> NoErr]

\* The status check of lines 71-73 left out.
QueryOutcomeStatusIgnored(resp) ==
    IF ~JsonLoads(resp.body).ok
    THEN [kind |-> "Exception", value |-> <<>>, err |-> NoErr]
    ELSE [kind |-> "value", value |-> JsonLoads(resp.body).value,
          err |-> NoErr]

\* query_datasets_info, lines 70-82, on the response it got.
QueryOutcome(resp) ==
    IF resp.status # StatusOK
    THEN [kind |-> "ErrorResponse", value |-> <<>>,
          err |-> [action |-> "query datasets info", status |-> resp.status,
                   reason |-> resp.reason, body |-> resp.body]]
    ELSE IF ~JsonLoads(resp.body).ok
    THEN [kind |-> "Exception", value |-> <<>>, err |-> NoErr]
    ELSE [kind |-> "value", value |-> JsonLoads(resp.body).value,
          err |-> NoErr]

\* The private connection closed on the normal exit only.
PrivateConnLeftOpenOnError(kind) ==
    IF kind \in {"ok", "value"} THEN "closed" ELSE "open"

\* Leaving `with contextlib.closing(HTTPConnection(hostname))` (lines 44,
\* 67), by return or by exception, closes the connection.
PrivateConnOnExit(kind) == "closed"

\* A finished class-method call, for the caller's log.
AdminEntry(c, conn, out, resp, nreq) ==
    [call |-> c, conn |-> conn, kind |-> out.kind, value |-> out.value,
     err |-> out.err, resp |-> resp, nreq |-> nreq]

\* create_volume (lines 44-50) / query_datasets_info (lines 67-69): a
\* connection of the call's own is created and the request written to it.
\* create_volume with a metainfo whose dtype has no server type fails at
\* line 45, before the request.
AdminCall ==
    /\ admin.pc = "idle"
    /\ admin.todo # <<>>
    /\ LET c == Head(admin.todo)
           k == Len(conns) + 1
       IN  IF c.op = "create_volume" /\ ~c.supported
           THEN LET out == [kind |-> "UnsupportedTypeError", value |-> <<>>,
                            err |-> NoErr]
                IN  /\ conns' = Append(conns, PrivateConnOnExit(out.kind))
                    /\ admin' = AdminIdle(Tail(admin.todo),
                           Append(admin.done,
                                  AdminEntry(c, k, out, NoResp, 0)))
           ELSE /\ conns' = Append(conns, "open")
                /\ admin' = [admin EXCEPT
                       !.pc = "requested", !.todo = Tail(@), !.call = c,
                       !.conn = k, !.nreq = 1]
    /\ UNCHANGED <<browser, client, connection, unread, shape, channelIndex,
                   lock, sent, replies, vol, lastPost, pc, cur, todo, invoked,
                   acquired, sentLog, returned>>

\* connection.getresponse() and the rest of the class method (lines 52-59,
\* 70-82): the response is checked, the result returned or the exception
\* raised, and the two `with` blocks are left.
AdminFinish ==
    /\ admin.pc = "answered"
    /\ LET out == IF admin.call.op = "create_volume"
                  THEN CreateOutcome(admin.resp)
                  ELSE QueryOutcome(admin.resp)
       IN  /\ conns' = [conns EXCEPT ![admin.conn] =
                                        PrivateConnOnExit(out.kind)]
           /\ admin' = AdminIdle(admin.todo,
                  Append(admin.done,
                         AdminEntry(admin.call, admin.conn, out, admin.resp,
                                    admin.nreq)))
    /\ UNCHANGED <<browser, client, connection, unread, shape, channelIndex,
                   lock, sent, replies, vol, lastPost, pc, cur, todo, invoked,
                   acquired, sentLog, returned>>

\* The encoding put off until the lock is held: nothing is encoded when the
\* caller reaches `with self._lock`.
BodyDataStreamDeferred(c) == <<>>

\* modify_subvolume, lines 146-147: new_data encoded into a buffer of the
\* call's own, before `with self._lock` (line 148).  A read has no body.
BodyDataStream(c) ==
    IF c.op = "modify" THEN encode_from_vigra_array(c.new_data) ELSE <<>>

\* A caller invokes retrieve_subvolume (line 115) or modify_subvolume (lines
\* 142-147): everything the call does before it reaches `with self._lock`.
Invoke(t) ==
    /\ client = "Connected"
    /\ pc[t] = "idle"
    /\ todo[t] # <<>>
    /\ LET c == Head(todo[t])
           id == <<t, Len(todo[t])>>
           pre == c.op = "modify" => IncludesAllChannels(c.start, c.stop)
           fq == FormatQuery(c.start, c.stop)
       IN  /\ todo' = [todo EXCEPT ![t] = Tail(@)]
           /\ invoked' = Append(invoked, id)
           /\ IF pre /\ fq.ok
              THEN /\ pc' = [pc EXCEPT ![t] = "ready"]
                   /\ cur' = [cur EXCEPT ![t] =
                          [id |-> id, call |-> c, rest_query |-> fq.query,
                           body |-> BodyDataStream(c),
                           nreq |-> 0, nacq |-> 0]]
                   /\ UNCHANGED returned
              ELSE /\ returned' = Append(returned,
                          Entry(t, c, id, AssertionFailed, NoResp, 0, 0))
                   /\ UNCHANGED <<pc, cur>>
    /\ UNCHANGED <<browser, client, connection, conns, unread, admin, shape,
                   channelIndex, lock, sent, replies, vol, lastPost, acquired,
                   sentLog>>

\* `with self._lock:` (lines 117, 148).
Acquire(t) ==
    /\ pc[t] = "ready"
    /\ CanAcquire(lock)
    /\ lock' = t
    /\ pc' = [pc EXCEPT ![t] = "locked"]
    /\ cur' = [cur EXCEPT ![t].nacq = @ + 1]
    /\ acquired' = Append(acquired, cur[t].id)
    /\ UNCHANGED <<browser, client, connection, conns, unread, admin, shape,
                   channelIndex, sent, replies, vol, lastPost, todo, invoked,
                   sentLog, returned>>

\* self._connection.request(...) (lines 118, 149-150).
SendRequest(t) ==
    /\ pc[t] = "locked"
    /\ sent' = sent \o Requests(t)
    /\ pc' = [pc EXCEPT ![t] = "requested"]
    /\ cur' = [cur EXCEPT ![t].nreq = @ + Len(Requests(t))]
    /\ sentLog' = sentLog \o [i \in 1..Len(Requests(t)) |-> cur[t].id]
    /\ UNCHANGED <<browser, client, connection, conns, unread, admin, shape,
                   channelIndex, lock, replies, vol, lastPost, todo, invoked,
                   acquired, returned>>

\* self._connection.getresponse() and everything up to the end of the call
\* (lines 119-139, 151-157): the next response on the connection is read to
\* its end, the lock is released, the call returns or raises.
HandleResponse(t) ==
    /\ pc[t] = "requested"
    /\ replies # <<>>
    /\ LET resp == Head(replies)
           c == cur[t].call
           out == IF c.op = "modify" THEN ModifyOutcome(c, resp)
                  ELSE RetrieveOutcome(c, resp)
       IN  /\ returned' = Append(returned,
                  Entry(t, c, cur[t].id, out, resp, cur[t].nreq, cur[t].nacq))
           /\ lock' = LockOnExit(t, out.kind)
           /\ connection' = ConnectionOnExit(out.kind)
           /\ unread' = IF c.op = "modify" THEN ModifyUnread(c, resp)
                         ELSE RetrieveUnread(c, resp)
    /\ replies' = Tail(replies)
    /\ pc' = [pc EXCEPT ![t] = "idle"]
    /\ cur' = [cur EXCEPT ![t] = NoCur]
    /\ UNCHANGED <<browser, client, conns, admin, shape, channelIndex, sent,
                   vol, lastPost, todo, invoked, acquired, sentLog>>

-----------------------------------------------------------------------------
(* Server steps *)

Reply(req, status, reason, body) ==
    [status |-> status, reason |-> reason, body |-> body, reqOf |-> req.id,
     url |-> req.url, conn |-> req.conn, snap |-> vol, lastPost |-> lastPost]

\* The shape of the server's stored volume: the channel count, then the
\* axes the wire grammar addresses.
ServerShape == <<shape[channelIndex + 1]>> \o NumpyDelete(shape, channelIndex)

\* The server serves the oldest request on the connection.  A GET is answered
\* with the cutout, or (a faulty server) with one byte fewer or one byte
\* more, or with an error status; a POST is applied and answered 204, or
\* refused with an error status.
ServerServe ==
    /\ sent # <<>>
    /\ Head(sent).call.op \in {"retrieve", "modify"}
    /\ LET req == Head(sent)
           good == QueryInRange(ServerShape, req.path)
       IN  \E how \in {"ok", "short", "long", "error"} :
             /\ how \in {"short", "long"} => req.method = "GET" /\ good
             /\ how = "ok" => good
             /\ IF how = "error"
                THEN /\ replies' = Append(replies,
                            Reply(req, StatusServerError,
                                  "Internal Server Error", ErrorBody))
                     /\ UNCHANGED <<vol, lastPost>>
                ELSE IF req.method = "GET"
                THEN LET full == encode_from_vigra_array(
                                     ServerCutout(vol, ServerShape, req.path))
                         body == CASE how = "ok" -> full
                                   [] how = "short" ->
                                          SubSeq(full, 1, Len(full) - 1)
                                   [] how = "long" -> Append(full, 0)
                     IN  /\ replies' = Append(replies,
                                Reply(req, StatusOK, "OK", body))
                         /\ UNCHANGED <<vol, lastPost>>
                ELSE LET dec == decode_to_vigra_array(req.body,
                                    <<ServerShape[1]>> \o req.path.roi_shape)
                     IN  /\ dec.ok /\ dec.rest = <<>>
                         /\ vol' = ServerStore(vol, req.path, dec.vdata)
                         /\ lastPost' = req.call
                         /\ replies' = Append(replies,
                                Reply(req, StatusNoContent, "No Content",
                                      <<>>))
    /\ sent' = Tail(sent)
    /\ UNCHANGED <<browser, client, connection, conns, unread, admin, shape,
                   channelIndex, lock, pc, cur, todo, invoked, acquired,
                   sentLog, returned>>

\* The server answers the schema request: with the schema document of its
\* volume, with a body that is no schema document, or with another status.
ServeSchema ==
    /\ sent # <<>>
    /\ Head(sent).call.op = "__init__"
    /\ \E how \in {"ok", "malformed", "nocontent", "notfound", "error"} :
          LET status == CASE how \in {"ok", "malformed"} -> StatusOK
                          [] how = "nocontent" -> StatusNoContent
                          [] how = "notfound" -> 404
                          [] how = "error" -> StatusServerError
              body == CASE how = "ok" -> SchemaJson(VolumeShape)
                        [] how = "nocontent" -> <<>>
                        [] OTHER -> ErrorBody
          IN  replies' = Append(replies,
                  Reply(Head(sent), status, ReasonOf(status), body))
    /\ sent' = Tail(sent)
    /\ UNCHANGED <<browser, client, connection, conns, unread, admin, shape,
                   channelIndex, lock, vol, lastPost, pc, cur, todo, invoked,
                   acquired, sentLog, returned>>

\* A faulty server answers a subvolume request with a status and a body that
\* have nothing to do with it, and leaves its volume alone.
ServerServeOdd ==
    /\ sent # <<>>
    /\ Head(sent).call.op \in {"retrieve", "modify"}
    /\ \E status \in {StatusOK, StatusNoContent, 404},
          body \in {<<>>, ErrorBody} :
          replies' = Append(replies,
              Reply(Head(sent), status, ReasonOf(status), body))
    /\ sent' = Tail(sent)
    /\ UNCHANGED <<browser, client, connection, conns, unread, admin, shape,
                   channelIndex, lock, vol, lastPost, pc, cur, todo, invoked,
                   acquired, sentLog, returned>>

\* The server answers the request of a class method on that call's own
\* connection, with any of three statuses and an empty body, a datasets-info
\* document or a body that is no document.
AdminServe ==
    /\ admin.pc = "requested"
    /\ \E status \in {StatusOK, StatusNoContent, StatusServerError},
          body \in {<<>>, DatasetsJson(ServerDatasets), ErrorBody} :
          admin' = [admin EXCEPT
              !.pc = "answered",
              !.resp = [NoResp EXCEPT !.status = status,
                                      !.reason = ReasonOf(status),
                                      !.body = body,
                                      !.conn = admin.conn]]
    /\ UNCHANGED <<browser, client, connection, conns, unread, shape,
                   channelIndex, lock, sent, replies, vol, lastPost, pc, cur,
                   todo, invoked, acquired, sentLog, returned>>

-----------------------------------------------------------------------------
(* Calls, initial states, specifications *)

Read(start, stop) ==
    [op |-> "retrieve", start |-> start, stop |-> stop, new_data |-> NoData]

\* A modify call whose new_data has the shape of the rectangle.
Write(start, stop, base) ==
    [op |-> "modify", start |-> start, stop |-> stop,
     new_data |-> Ramp(VecSub(stop, start), base)]

\* Every (start, stop) with 0 <= start < stop <= VolumeShape.
ValidRanges ==
    {r \in Coords(VolumeShape) \X Coords(VecAdd(VolumeShape, <<1, 1, 1>>)) :
        \A k \in 1..3 : r[1][k] < r[2][k]}

FullChannelRanges ==
    {r \in ValidRanges : r[1][1] = 0 /\ r[2][1] = NumChannels}

\* The calls the threads of the concurrent specification choose from: reads
\* of the whole volume, of channels [1, NumChannels-1) and of a range past
\* the volume's bounds; writes of a rectangle over all channels and over
\* channels [1, NumChannels-1).
FewCalls ==
    { Read(<<0, 0, 0>>, <<NumChannels, 2, 2>>),
      Read(<<1, 0, 0>>, <<NumChannels - 1, 2, 2>>),
      Read(<<0, 0, 0>>, <<NumChannels, 3, 2>>),
      Write(<<0, 1, 0>>, <<NumChannels, 2, 1>>, 70000),
      Write(<<1, 0, 0>>, <<NumChannels - 1, 2, 2>>, 1000) }

\* A retrieve_subvolume call with a valid range for each thread: the whole
\* volume for the odd threads, channels [1, NumChannels-1) for the even ones.
LiveCall(t) ==
    IF t % 2 = 1 THEN Read(<<0, 0, 0>>, <<NumChannels, 2, 2>>)
    ELSE Read(<<1, 0, 0>>, <<NumChannels - 1, 2, 2>>)

\* The client after __init__: the metadata holds the channel axis first (the
\* code reads the channel count from shape[0] and the channel range from
\* start[0], stop[0]), the lock is free, nothing is on the connection.
InitClient ==
    /\ client = "Connected"
    /\ connection = 1
    /\ conns = <<"open">>
    /\ unread = <<>>
    /\ admin = AdminIdle(<<>>, <<>>)
    /\ browser = NoBrowser
    /\ channelIndex = 0
    /\ lock = 0
    /\ sent = <<>>
    /\ replies = <<>>
    /\ lastPost = NoCall
    /\ pc = [t \in Threads |-> "idle"]
    /\ cur = [t \in Threads |-> NoCur]
    /\ invoked = <<>>
    /\ acquired = <<>>
    /\ sentLog = <<>>
    /\ returned = <<>>

\* Every thread makes one call on the shared client.
Init ==
    /\ InitClient
    /\ shape = VolumeShape
    /\ vol = Ramp(VolumeShape, 300).at
    /\ todo \in [Threads -> {<<c>> : c \in FewCalls}]

\* Every thread calls retrieve_subvolume once, with a valid range, on the
\* shared client.
InitLive ==
    /\ InitClient
    /\ shape = VolumeShape
    /\ vol = Ramp(VolumeShape, 300).at
    /\ todo = [t \in Threads |-> <<LiveCall(t)>>]

\* One caller makes two calls in a row: a full-channel write or read of any
\* rectangle, then a read of any valid range.
InitSeq ==
    /\ InitClient
    /\ shape = VolumeShape
    /\ vol = Ramp(VolumeShape, 300).at
    /\ \E c1 \in {Write(r[1], r[2], b) :
                      r \in FullChannelRanges, b \in {1000, 70000}}
                 \cup {Read(r[1], r[2]) : r \in FullChannelRanges},
          c2 \in {Read(r[1], r[2]) : r \in ValidRanges} :
          todo = [t \in Threads |-> IF t = 1 THEN <<c1, c2>> ELSE <<>>]

\* start/stop vectors around the bounds of VolumeShape, valid and not.
AnyRanges ==
    LET V == {v \in [1..3 -> -1..(NumChannels + 1)] :
                  \A k \in 2..3 : v[k] <= 3}
    IN  (V \X V) \cup { <<<<0, 0>>, <<1, 1>>>>,
                        <<<<0, 0, 0>>, <<1, 1>>>>,
                        <<<<0, 0, 0, 0>>, <<1, 1, 1, 1>>>> }

\* One caller formats the query of one call: on the small volume any range,
\* on the test volume (and on the shape as worded) the range of test_cutout.
InitPath ==
    /\ InitClient
    /\ vol = <<>>
    /\ \E s \in {VolumeShape, TestShape, WordedShape} :
          /\ shape = s
          /\ \E r \in IF s = VolumeShape THEN AnyRanges
                      ELSE {<<TestStart, TestStop>>} :
                todo = [t \in Threads |->
                           IF t = 1 THEN <<Read(r[1], r[2])>> ELSE <<>>]

\* One caller makes one retrieve_subvolume call with any range, valid or
\* not, on the small volume.
InitRange ==
    /\ InitClient
    /\ shape = VolumeShape
    /\ vol = Ramp(VolumeShape, 300).at
    /\ \E r \in AnyRanges :
          todo = [t \in Threads |->
                     IF t = 1 THEN <<Read(r[1], r[2])>> ELSE <<>>]

\* The calls made on an instance whose construction is part of the run: a
\* read of channels [1, NumChannels-1), a read past the volume's bounds, a
\* write of a rectangle over all channels.
LifeCalls ==
    { Read(<<1, 0, 0>>, <<NumChannels - 1, 2, 2>>),
      Read(<<0, 0, 0>>, <<NumChannels, 3, 2>>),
      Write(<<0, 1, 0>>, <<NumChannels, 2, 1>>, 70000) }

\* The calls of the class methods: create_volume with a dtype the server has
\* a type for and with one it has none for, query_datasets_info.
AdminCalls ==
    { [op |-> "create_volume", supported |-> TRUE],
      [op |-> "create_volume", supported |-> FALSE],
      [op |-> "query_datasets_info", supported |-> TRUE] }

\* Nothing is constructed yet; one caller will construct the client and make
\* two calls on it, another will call one of the class methods.
InitLifecycle ==
    /\ client = "Uninitialized"
    /\ connection = 0
    /\ conns = <<>>
    /\ unread = <<>>
    /\ \E a \in AdminCalls : admin = AdminIdle(<<a>>, <<>>)
    /\ browser = NoBrowser
    /\ shape = <<>>
    /\ channelIndex = 0
    /\ lock = 0
    /\ sent = <<>>
    /\ replies = <<>>
    /\ vol = Ramp(VolumeShape, 300).at
    /\ lastPost = NoCall
    /\ pc = [t \in Threads |-> "idle"]
    /\ cur = [t \in Threads |-> NoCur]
    /\ invoked = <<>>
    /\ acquired = <<>>
    /\ sentLog = <<>>
    /\ returned = <<>>
    /\ \E c1 \in LifeCalls, c2 \in LifeCalls :
          todo = [t \in Threads |-> IF t = 1 THEN <<c1, c2>> ELSE <<>>]

\* The axis orders the metadata can hold for the small volume: the channel
\* axis first, in the middle or last.
AxisOrders == 0..(Len(VolumeShape) - 1)

\* metainfo.shape of the small volume when its channel axis has index ci.
ShapeWithChannelAt(ci) ==
    [k \in 1..Len(VolumeShape) |->
        IF k = ci + 1 THEN NumChannels
        ELSE IF k <= ci THEN VolumeShape[k + 1] ELSE VolumeShape[k]]

\* The client after __init__ on metadata of any axis order; one caller makes
\* one call, a read or a write of any range that is valid for the shape.
InitAxes ==
    /\ client = "Connected"
    /\ connection = 1
    /\ conns = <<"open">>
    /\ unread = <<>>
    /\ admin = AdminIdle(<<>>, <<>>)
    /\ browser = NoBrowser
    /\ lock = 0
    /\ sent = <<>>
    /\ replies = <<>>
    /\ lastPost = NoCall
    /\ pc = [t \in Threads |-> "idle"]
    /\ cur = [t \in Threads |-> NoCur]
    /\ invoked = <<>>
    /\ acquired = <<>>
    /\ sentLog = <<>>
    /\ returned = <<>>
    /\ vol = Ramp(VolumeShape, 300).at
    /\ channelIndex \in AxisOrders
    /\ shape = ShapeWithChannelAt(channelIndex)
    /\ \E r \in Coords(shape) \X Coords(VecAdd(shape, <<1, 1, 1>>)) :
          /\ \A k \in 1..Len(shape) : r[1][k] < r[2][k]
          /\ \E c \in {Read(r[1], r[2]), Write(r[1], r[2], 1000)} :
                todo = [t \in Threads |-> IF t = 1 THEN <<c>> ELSE <<>>]

Next ==
    \/ \E t \in Threads : Invoke(t)
    \/ \E t \in Threads : Acquire(t)
    \/ \E t \in Threads : SendRequest(t)
    \/ \E t \in Threads : HandleResponse(t)
    \/ ServerServe

NextPath == \E t \in Threads : Invoke(t)

\* The steps of the instance from its construction on, against a server
\* that may answer with any status.
NextLifecycle ==
    \/ Construct
    \/ ServeSchema
    \/ FinishConstruct
    \/ Next
    \/ ServerServeOdd
    \/ AdminCall
    \/ AdminServe
    \/ AdminFinish

Spec == Init /\ [][Next]_vars

SpecSeq == InitSeq /\ [][Next]_vars

SpecPath == InitPath /\ [][NextPath]_vars

SpecRange == InitRange /\ [][Next]_vars

SpecAxes == InitAxes /\ [][Next]_vars

SpecLifecycle == InitLifecycle /\ [][NextLifecycle]_vars

\* The scheduler runs a runnable thread and the server answers every
\* request: while some step is possible, a step is eventually taken.
FairSpec == InitLive /\ [][Next]_vars /\ WF_vars(Next)

-----------------------------------------------------------------------------
(* Properties *)

Entries == {returned[i] : i \in 1..Len(returned)}

\* Index of x in a sequence that holds it.
Pos(seq, x) == CHOOSE i \in 1..Len(seq) : seq[i] = x

\* The threads between their request and the end of its response handling.
InFlight == {t \in Threads : pc[t] = "requested"}

AllDone == \A t \in Threads : pc[t] = "idle" /\ todo[t] = <<>>

\* The call passes the asserts of the method it names.
ValidCall(c) ==
    /\ FormatQuery(c.start, c.stop).ok
    /\ c.op = "modify" => IncludesAllChannels(c.start, c.stop)

\* C1: whatever the interleaving of retrieve_subvolume and modify_subvolume
\* callers, at most one request/response cycle is in flight on the
\* connection: at most one thread is between its request and the end of its
\* response handling, that thread holds the lock, and the connection carries
\* at most one unserved request or unread response, and only for that thread.
C1_OneCycleInFlight ==
    /\ Cardinality(InFlight) <= 1
    /\ Len(sent) + Len(replies) <= Cardinality(InFlight)
    /\ \A t \in InFlight : lock = t

\* C1's case: a retrieve is in flight while a modify caller waits for the lock.
C1_Witness ==
    \E t, u \in Threads :
        /\ pc[t] = "requested" /\ cur[t].call.op = "retrieve"
        /\ pc[u] = "ready" /\ cur[u].call.op = "modify"

\* The requests sent, the cycles ended and the calls made all number the same
\* when no call was refused before I/O.
CyclesMatchCalls ==
    LET valid == {e \in Entries : ValidCall(e.call)}
    IN  /\ Len(returned) = Len(invoked)
        /\ Len(sentLog) = Cardinality(valid)
        /\ \A e \in valid : e.nreq = 1 /\ e.resp.status # 0
        /\ sent = <<>> /\ replies = <<>>

\* C2: when the server answers every request, all the concurrent calls
\* eventually complete (no caller waits for the lock forever), and the
\* connection has then seen exactly one request/response cycle per call with
\* a valid range.
C2_AllCallsComplete == <>[](AllDone /\ CyclesMatchCalls)

\* C2's case: every thread called retrieve_subvolume with a valid range, all
\* the calls returned an array, after one cycle each.
C2_Witness ==
    /\ AllDone
    /\ Len(returned) = NumThreads
    /\ Len(sentLog) = NumThreads
    /\ \A e \in Entries : e.call.op = "retrieve" /\ e.kind = "value"

\* C3: no data interleaving: the response a call handles (and decodes its
\* array from) is the response to the request that same call sent.
C3_OwnResponse ==
    \A e \in Entries : e.resp.status # 0 => e.resp.reqOf = e.id

\* C3's case: two overlapping retrieve calls of different ranges (the one
\* invoked second took the lock first) both returned an array.
C3_Witness ==
    \E e, f \in Entries :
        /\ e.call.op = "retrieve" /\ e.kind = "value"
        /\ f.call.op = "retrieve" /\ f.kind = "value"
        /\ e.call # f.call
        /\ Pos(invoked, e.id) < Pos(invoked, f.id)
        /\ Pos(acquired, f.id) < Pos(acquired, e.id)

\* C4 as claimed: requests go out on the connection in the order in which
\* the callers invoked retrieve_subvolume / modify_subvolume.
C4_CallOrder ==
    \A i, j \in 1..Len(sentLog) :
        i < j => Pos(invoked, sentLog[i]) < Pos(invoked, sentLog[j])

\* C4 amended: requests go out in the order in which the callers take the
\* lock, one request per lock tenure: the requests sent are the lock
\* acquisitions in order, less at most the current holder's, and no call
\* sends a second request.
C4_LockOrder ==
    /\ Len(sentLog) <= Len(acquired)
    /\ Len(acquired) <= Len(sentLog) + 1
    /\ \A i \in 1..Len(sentLog) : sentLog[i] = acquired[i]
    /\ \A i, j \in 1..Len(sentLog) : i # j => sentLog[i] # sentLog[j]
    /\ \A e \in Entries : e.nreq <= 1

\* C4's case: two requests were sent, in the reverse of invocation order.
C4_Witness ==
    /\ Len(sentLog) >= 2
    /\ Pos(invoked, sentLog[2]) < Pos(invoked, sentLog[1])

\* The contents of the stored volume v over [start, stop) on every axis.
ReferenceSlice(v, start, stop) ==
    [shape |-> VecSub(stop, start),
     at |-> [c \in Coords(VecSub(stop, start)) |-> v[VecAdd(c, start)]]]

\* Channels [a, b) of an array.
ChannelsOf(arr, a, b) ==
    LET shp == <<b - a>> \o Tail(arr.shape)
    IN  [shape |-> shp,
         at |-> [c \in Coords(shp) |-> arr.at[<<c[1] + a>> \o Tail(c)]]]

\* Product of the non-channel extents x full channel count x element size.
ExpectedLength(c) ==
    Prod(Tail(VecSub(c.stop, c.start))) * shape[1] * ItemSize

Reads == {e \in Entries : e.call.op = "retrieve"}

\* The server answered the read with status 200 and a body of the exact length.
AnsweredInFull(e) ==
    /\ e.resp.status = StatusOK
    /\ Len(e.resp.body) = ExpectedLength(e.call)

\* C5: round trip: a read of (start, stop) that the server answers in full,
\* when the last write the server applied was modify_subvolume(start, stop,
\* A) over all channels, returns A itself: same shape, every element at its
\* channel and spatial position.
C5_RoundTrip ==
    \A e \in Reads :
        LET w == e.resp.lastPost
        IN  (/\ AnsweredInFull(e)
             /\ w.op = "modify"
             /\ w.start = e.call.start
             /\ w.stop = e.call.stop)
            => e.kind = "value" /\ e.value = w.new_data

\* C5's case: a write of a 2 x 2 rectangle, then a read of it that returned.
C5_Witness ==
    \E e \in Reads :
        /\ e.kind = "value"
        /\ e.resp.lastPost.op = "modify"
        /\ e.resp.lastPost.start = e.call.start
        /\ e.resp.lastPost.stop = e.call.stop
        /\ e.value.shape = <<NumChannels, 2, 2>>
        /\ e.value.at[<<1, 1, 0>>] # e.value.at[<<1, 0, 1>>]

\* C6: a read of a valid (start, stop) that the server answers in full
\* returns exactly the stored volume's contents over [start, stop) on every
\* axis, the channel axis included.
C6_ReturnsStoredContents ==
    \A e \in Reads :
        AnsweredInFull(e)
        => /\ e.kind = "value"
           /\ e.value = ReferenceSlice(e.resp.snap, e.call.start, e.call.stop)

\* C6's case: a returned read of a proper sub-range on the channel axis and
\* on a spatial axis, from a volume a write had changed before.
C6_Witness ==
    \E e \in Reads :
        /\ e.kind = "value"
        /\ e.call.start[1] > 0
        /\ e.call.stop[1] < NumChannels
        /\ e.call.start[2] = 1
        /\ e.resp.lastPost.op = "modify"

\* C7: channel slicing: of two returned reads over the same spatial
\* rectangle of the same stored contents, one of all channels and one of the
\* channel range [a, b), the second has b - a channels and equals channels
\* [a, b) of the first.
C7_ChannelSlice ==
    \A e, f \in Reads :
        (/\ e.kind = "value" /\ f.kind = "value"
         /\ e.call.start[1] = 0 /\ e.call.stop[1] = shape[1]
         /\ Tail(e.call.start) = Tail(f.call.start)
         /\ Tail(e.call.stop) = Tail(f.call.stop)
         /\ e.resp.snap = f.resp.snap)
        => /\ f.value.shape[1] = f.call.stop[1] - f.call.start[1]
           /\ f.value = ChannelsOf(e.value, f.call.start[1], f.call.stop[1])

\* C7's case: a volume of 4 channels, a full-channel read and a read of
\* channels [1, 3) over one rectangle, the second returning 2 channels.
C7_Witness ==
    /\ shape[1] = 4
    /\ \E e, f \in Reads :
          /\ e.kind = "value" /\ f.kind = "value"
          /\ e.call.start[1] = 0 /\ e.call.stop[1] = 4
          /\ f.call.start[1] = 1 /\ f.call.stop[1] = 3
          /\ Tail(e.call.start) = Tail(f.call.start)
          /\ Tail(e.call.stop) = Tail(f.call.stop)
          /\ f.value.shape[1] = 2

\* The caller formatted the query of test_cutout's range.
TestQueryOf(t) ==
    /\ cur[t].call.start = TestStart
    /\ cur[t].call.stop = TestStop

TestCallMade ==
    /\ todo[1] = <<>>
    /\ invoked # <<>>
    /\ shape # VolumeShape

\* C8 as claimed: for test_cutout's start and stop the call yields a wire
\* path over three spatial axes, its dims segment 0_1_2.
C8_ThreeSpatialAxes ==
    TestCallMade
    => /\ pc[1] = "ready"
       /\ cur[1].rest_query.dims = <<0, 1, 2>>
       /\ Len(cur[1].rest_query.roi_shape) = 3
       /\ Len(cur[1].rest_query.start) = 3

\* C8 amended: on the volume of the test (client-order shape 3 channels x
\* 200 x 100 x 10 x 4) start=(0,50,5,9,0), stop=(3,150,20,10,4) yield the
\* path with the channel entries dropped, the extents 100_15_1_4 and the
\* offsets 50_5_9_0 of the four remaining axes in client order, and the dims
\* segment 0_1_2_3; on a volume of four axes (4,10,100,200) the same start
\* and stop fail the length assert and yield no path.
C8_TestPath ==
    TestCallMade
    => IF shape = TestShape
       THEN /\ pc[1] = "ready"
            /\ TestQueryOf(1)
            /\ cur[1].rest_query = [dims |-> <<0, 1, 2, 3>>,
                                    roi_shape |-> <<100, 15, 1, 4>>,
                                    start |-> <<50, 5, 9, 0>>]
       ELSE /\ pc[1] = "idle"
            /\ returned[1].kind = "AssertionError"

\* C8's case: the query of test_cutout's range was formatted on the test's
\* volume.
C8_Witness ==
    /\ shape = TestShape
    /\ pc[1] = "ready"
    /\ TestQueryOf(1)
    /\ cur[1].rest_query.roi_shape # <<>>

\* C9: byte accounting: a read answered with status 200 fails, returning no
\* array, when the body has one byte fewer or one byte more than the
\* expected length, and returns an array only when the body has exactly the
\* expected length.
C9_ByteAccounting ==
    \A e \in Reads :
        e.resp.status = StatusOK
        => /\ Len(e.resp.body) \in {ExpectedLength(e.call) - 1,
                                    ExpectedLength(e.call) + 1}
              => e.kind \in {"DecodeError", "Exception"} /\ e.value = NoData
           /\ e.kind = "value" => Len(e.resp.body) = ExpectedLength(e.call)

\* C9's case: one read failed on a body one byte short, another on a body
\* one byte long.
C9_Witness ==
    \E e, f \in Reads :
        /\ e.resp.status = StatusOK /\ f.resp.status = StatusOK
        /\ Len(e.resp.body) = ExpectedLength(e.call) - 1
        /\ e.kind = "DecodeError"
        /\ Len(f.resp.body) = ExpectedLength(f.call) + 1
        /\ f.kind = "Exception"

\* A modify call whose channel range is not [0, channel count).
PartialChannelWrite(c) ==
    /\ c.op = "modify"
    /\ ~(c.start[1] = 0 /\ c.stop[1] = shape[1])

\* C10: full-channel enforcement: a modify_subvolume call whose channel
\* range differs from [0, channelCount) fails with an AssertionError and
\* issues no network call: it never takes the lock, never sends a request,
\* and no request of it is ever on the connection.
C10_FullChannelEnforced ==
    /\ \A e \in Entries :
          PartialChannelWrite(e.call)
          => /\ e.kind = "AssertionError"
             /\ e.nreq = 0 /\ e.nacq = 0
             /\ e.resp = NoResp
    /\ \A t \in Threads : ~PartialChannelWrite(cur[t].call)
    /\ \A i \in 1..Len(sent) : ~PartialChannelWrite(sent[i].call)
    /\ \A i \in 1..Len(replies) : replies[i].reqOf \notin
          {e.id : e \in {x \in Entries : PartialChannelWrite(x.call)}}

\* C10's case: a modify call of channels [1, 3) has failed while another
\* thread's request was in flight.
C10_Witness ==
    \E e \in Entries :
        /\ PartialChannelWrite(e.call)
        /\ e.kind = "AssertionError"
        /\ InFlight # {}

\* The range breaks 0 <= start < stop <= shape on some axis, or start or
\* stop has not one entry per axis.
InvalidRange(start, stop) ==
    \/ Len(start) # Len(shape)
    \/ Len(stop) # Len(shape)
    \/ \E k \in 1..Len(shape) :
           ~(0 <= start[k] /\ start[k] < stop[k] /\ stop[k] <= shape[k])

\* C11: a retrieve_subvolume call whose range is invalid on some axis, or
\* of the wrong length, fails with the assertion error before any I/O: it
\* never holds the lock, never has a request on the connection, and ends
\* having sent nothing, acquired nothing and received nothing.
C11_InvalidRangeNoIO ==
    /\ \A e \in Reads :
          InvalidRange(e.call.start, e.call.stop) =>
              /\ e.kind = "AssertionError"
              /\ e.nreq = 0 /\ e.nacq = 0 /\ e.resp = NoResp
              /\ \A i \in 1..Len(sentLog) : sentLog[i] # e.id
              /\ \A i \in 1..Len(acquired) : acquired[i] # e.id
    /\ \A t \in Threads :
          pc[t] # "idle" /\ cur[t].call.op = "retrieve" =>
              ~InvalidRange(cur[t].call.start, cur[t].call.stop)
    /\ \A i \in 1..Len(sent) :
          sent[i].call.op = "retrieve" =>
              ~InvalidRange(sent[i].call.start, sent[i].call.stop)

\* A read with start and stop of the wrong length has failed, and nothing
\* was sent and the lock is free.
C11_Witness ==
    \E e \in Reads :
        /\ Len(e.call.start) # Len(shape)
        /\ e.kind = "AssertionError"
        /\ sentLog = <<>> /\ acquired = <<>> /\ lock = 0

\* C12: a response with a status outside 2xx to the schema request of the
\* construction, with a status other than 200 to a read, or other than 204
\* to a write, ends the call with ErrorResponse carrying the action and the
\* response's status, reason and body; the call yields no array, and a
\* construction so answered leaves no connected client.
C12_StatusValidation ==
    \A e \in Entries :
        LET st == e.resp.status
            refused == CASE e.call.op = "__init__" -> st < 200 \/ st > 299
                         [] e.call.op = "retrieve" -> st # 200
                         [] e.call.op = "modify" -> st # 204
                         [] OTHER -> FALSE
            action == CASE e.call.op = "__init__" -> "metainfo query"
                        [] e.call.op = "retrieve" -> "subvolume query"
                        [] e.call.op = "modify" -> "subvolume post"
                        [] OTHER -> ""
        IN  st # 0 /\ refused =>
                /\ e.kind = "ErrorResponse"
                /\ e.err = [action |-> action, status |-> st,
                            reason |-> e.resp.reason, body |-> e.resp.body]
                /\ e.value = NoData
                /\ e.call.op = "__init__" => client # "Connected"

\* A read answered 204 and a write answered 200 have both failed with
\* ErrorResponse.
C12_Witness ==
    /\ \E e \in Entries :
          /\ e.call.op = "retrieve" /\ e.resp.status = 204
          /\ e.kind = "ErrorResponse"
    /\ \E e \in Entries :
          /\ e.call.op = "modify" /\ e.resp.status = 200
          /\ e.kind = "ErrorResponse" /\ e.err.body = ErrorBody

\* The finished calls of the class methods.
AdminEntries == {admin.done[i] : i \in 1..Len(admin.done)}

\* C13: create_volume returns normally exactly when the server answered 204
\* with an empty body; answered any other status it raises ErrorResponse
\* carrying that response's status, reason and body; answered 204 with a
\* body it raises the generic exception.
C13_CreateVolume ==
    \A d \in AdminEntries :
        d.call.op = "create_volume" =>
            /\ d.kind = "ok" <=> d.resp.status = 204 /\ d.resp.body = <<>>
            /\ d.resp.status \notin {0, 204} =>
                  /\ d.kind = "ErrorResponse"
                  /\ d.err = [action |-> "create new data",
                              status |-> d.resp.status,
                              reason |-> d.resp.reason,
                              body |-> d.resp.body]
            /\ d.resp.status = 204 /\ d.resp.body # <<>> =>
                  d.kind = "Exception"

\* create_volume, answered 204 with a body, has raised the generic exception.
C13_Witness ==
    \E d \in AdminEntries :
        /\ d.call.op = "create_volume"
        /\ d.resp.status = 204 /\ d.resp.body # <<>>
        /\ d.kind = "Exception"

\* C14: query_datasets_info returns a listing only when the server answered
\* 200 with a well-formed document, and then the listing that document
\* holds; answered any other status it raises ErrorResponse carrying the
\* response's status, reason and body; answered 200 with a body that is no
\* document it raises the parse failure.
C14_QueryDatasetsInfo ==
    \A d \in AdminEntries :
        d.call.op = "query_datasets_info" =>
            LET b == d.resp.body
                wellFormed ==
                    /\ Len(b) >= 2
                    /\ b = DatasetsJson(SubSeq(b, 2, Len(b) - 1))
            IN  /\ d.kind = "value" <=> d.resp.status = 200 /\ wellFormed
                /\ d.kind = "value" =>
                      d.resp.body = DatasetsJson(d.value)
                /\ d.resp.status # 200 =>
                      /\ d.kind = "ErrorResponse"
                      /\ d.err = [action |-> "query datasets info",
                                  status |-> d.resp.status,
                                  reason |-> d.resp.reason,
                                  body |-> d.resp.body]
                /\ d.resp.status = 200 /\ ~wellFormed =>
                      d.kind = "Exception"

\* query_datasets_info, answered 200 with the server's datasets-info
\* document, has returned the server's listing.
C14_Witness ==
    \E d \in AdminEntries :
        /\ d.call.op = "query_datasets_info"
        /\ d.kind = "value" /\ d.value = ServerDatasets

\* The finished constructions.
Constructions == {e \in Entries : e.call.op = "__init__"}

\* The construction went through: the schema came with status 200 and the
\* metadata in use is the one its body describes.
ConstructedWell ==
    \E e \in Constructions :
        /\ e.kind = "ok"
        /\ e.resp.status = 200
        /\ e.resp.body = SchemaJson(shape)

\* C15: a read or write is invoked, holds the lock or has a request on the
\* connection only on a client whose construction completed (schema answered
\* 200, metadata taken from it); a construction that failed leaves no
\* connected client; and the client becomes connected only by the step that
\* ends a construction.
C15_Lifecycle ==
    /\ [](/\ client = "Connected" => ConstructedWell
          /\ (\E e \in Constructions : e.kind # "ok") =>
                client # "Connected"
          /\ (invoked # <<>> \/ acquired # <<>> \/ sentLog # <<>>) =>
                ConstructedWell
          /\ \A i \in 1..Len(sent) :
                sent[i].call.op \in {"retrieve", "modify"} =>
                    ConstructedWell)
    /\ [][client' = "Connected" /\ client # "Connected" =>
             /\ client = "Requested"
             /\ Len(returned') = Len(returned) + 1
             /\ returned'[Len(returned')].call.op = "__init__"]_vars

\* On a client whose construction went through a read's request has been
\* sent.
C15_Witness ==
    /\ ConstructedWell
    /\ client = "Connected"
    /\ \E i \in 1..Len(sent) : sent[i].call.op = "retrieve"

\* The finished reads and writes that got a response.
Cycles ==
    {e \in Entries : e.call.op \in {"retrieve", "modify"} /\ e.resp.status # 0}

\* C16: every request of a read or write, answered or still on the wire,
\* went out on the connection the construction made and sent the schema
\* request on, and the instance still holds that connection; and no step
\* taken once the client is connected, other than those of the class
\* methods, makes a connection or changes the instance's connection or
\* metadata (the codec is made from the metadata once, at construction).
C16_OneConnection ==
    /\ [](\A c \in Constructions :
            /\ client = "Connected" => connection = c.resp.conn
            /\ \A e \in Cycles : e.resp.conn = c.resp.conn
            /\ \A i \in 1..Len(sent) : sent[i].conn = c.resp.conn)
    /\ [][client = "Connected" /\ admin' = admin =>
             /\ connection' = connection
             /\ conns' = conns
             /\ shape' = shape
             /\ channelIndex' = channelIndex]_vars

\* Two calls in a row, the first failed and the second answered, both on
\* the connection of the construction.
C16_Witness ==
    \E c \in Constructions, e \in Cycles, f \in Cycles :
        /\ e.id # f.id
        /\ e.kind = "ErrorResponse"
        /\ f.kind \in {"value", "ok"}
        /\ Pos(returned, e) < Pos(returned, f)
        /\ e.resp.conn = c.resp.conn /\ f.resp.conn = c.resp.conn

\* C17: a step of create_volume or query_datasets_info leaves the instance's
\* connection, its traffic, its lock, its metadata and the callers' calls
\* as they are; the class method works on a connection of its own, not the
\* instance's, open while the call runs and closed once the call has ended,
\* however it ended.
C17_PrivateConnection ==
    /\ [][admin' # admin =>
             /\ UNCHANGED <<client, connection, unread, shape, channelIndex,
                            lock, sent, replies, pc, cur, todo, returned>>
             /\ \A k \in 1..Len(conns) :
                   k # admin.conn => conns'[k] = conns[k]]_vars
    /\ [](/\ admin.pc # "idle" =>
                /\ admin.conn # connection
                /\ conns[admin.conn] = "open"
          /\ \A d \in AdminEntries :
                /\ d.conn # connection
                /\ conns[d.conn] = "closed"
          /\ \A i \in 1..Len(sent) :
                /\ sent[i].conn # admin.conn
                /\ \A d \in AdminEntries : sent[i].conn # d.conn)

\* While a caller holds the instance's lock, waiting for its response, a
\* class method has run on its own connection, failed with ErrorResponse,
\* and that connection is closed.
C17_Witness ==
    /\ lock = 1 /\ pc[1] = "requested"
    /\ \E d \in AdminEntries :
          /\ d.kind = "ErrorResponse"
          /\ d.conn > connection
          /\ conns[d.conn] = "closed"

\* A vector without its entry on the channel axis.
SansChannel(v) ==
    SubSeq(v, 1, channelIndex) \o SubSeq(v, channelIndex + 2, Len(v))

\* The three joined segments a (start, stop) range stands for: the axes
\* 0..k-1 of the k non-channel axes, the extents stop - start and the
\* offsets start, channel entry removed.
WireQuery(start, stop) ==
    [dims |-> [k \in 1..(Len(shape) - 1) |-> k - 1],
     roi_shape |-> [k \in 1..(Len(shape) - 1) |->
                       SansChannel(stop)[k] - SansChannel(start)[k]],
     start |-> SansChannel(start)]

\* C18 as worded: the path of every request of a read or write is
\* /node/{uuid}/{data_name}/{dims}/{extents}/{offsets}, and a read and a
\* write of the same range have the same path.
C18_PathAsWorded ==
    /\ \A e \in Cycles :
          e.resp.url = [segments |-> <<"node", ClientUuid, ClientDataName>>,
                        query |-> WireQuery(e.call.start, e.call.stop)]
    /\ \A e \in Cycles, f \in Cycles :
          e.call.start = f.call.start /\ e.call.stop = f.call.stop =>
              e.resp.url = f.resp.url

\* C18: the path of every request of a read or write is
\* /api/node/{uuid}/{data_name}/{dims}/{extents}/{offsets}, with the channel
\* entry removed, extents stop - start, offsets start and dims 0_1_..._k-1
\* for the k non-channel axes; a read and a write of the same range have
\* the same path.
C18_Path ==
    /\ \A e \in Cycles :
          e.resp.url = [segments |-> <<"api", "node", ClientUuid,
                                       ClientDataName>>,
                        query |-> WireQuery(e.call.start, e.call.stop)]
    /\ \A e \in Cycles, f \in Cycles :
          e.call.start = f.call.start /\ e.call.stop = f.call.stop =>
              e.resp.url = f.resp.url

\* A write and then a read of the same rectangle, away from the origin,
\* have been answered, and their requests had the same path.
C18_Witness ==
    \E e \in Cycles, f \in Cycles :
        /\ e.call.op = "modify" /\ f.call.op = "retrieve"
        /\ e.call.start = f.call.start /\ e.call.stop = f.call.stop
        /\ e.call.start[2] = 1
        /\ e.resp.url = f.resp.url
        /\ e.resp.url.query.roi_shape = <<1, 2>>

\* The call's arguments meet the preconditions of its method: a valid range
\* and, for a write, the whole channel range.
PreconditionsPass(c) ==
    /\ ~InvalidRange(c.start, c.stop)
    /\ c.op = "modify" => c.start[1] = 0 /\ c.stop[1] = shape[1]

\* The number of requests sent for the call with this id.
SentFor(id) == Cardinality({i \in 1..Len(sentLog) : sentLog[i] = id})

\* C19: a read or write sends at most one request: a call in progress has
\* sent none before its request step and one after it; a finished call sent
\* exactly one if its preconditions passed and none if they failed, however
\* the cycle ended; no call's request is on the wire twice.
C19_NoRetry ==
    /\ \A t \in Threads :
          /\ cur[t].nreq <= 1
          /\ pc[t] = "requested" => cur[t].nreq = 1 /\ SentFor(cur[t].id) = 1
          /\ pc[t] \in {"ready", "locked"} =>
                cur[t].nreq = 0 /\ SentFor(cur[t].id) = 0
    /\ \A e \in Entries :
          e.call.op \in {"retrieve", "modify"} =>
              /\ e.nreq = IF PreconditionsPass(e.call) THEN 1 ELSE 0
              /\ SentFor(e.id) = e.nreq
    /\ \A i \in 1..Len(sent), j \in 1..Len(sent) :
          sent[i].id = sent[j].id => i = j

\* A call whose cycle failed with ErrorResponse has ended having sent one
\* request, and the caller's next call has sent its own.
C19_Witness ==
    \E e \in Cycles :
        /\ e.kind = "ErrorResponse"
        /\ e.nreq = 1
        /\ Len(sentLog) = 2
        /\ sentLog[1] = e.id /\ sentLog[2] # e.id

\* The ways a call ends after which the response is to have been read to
\* its end: a write by returning or with ErrorResponse, a read by returning,
\* with ErrorResponse or with the excess-length exception.
EndsDrained(e) ==
    \/ e.call.op = "modify" /\ e.kind \in {"ok", "ErrorResponse"}
    \/ e.call.op = "retrieve" /\
           e.kind \in {"value", "ErrorResponse", "Exception"}

\* C20: the step that ends a write (by return or ErrorResponse) or a read
\* (by return, ErrorResponse or the excess-length exception) leaves no byte
\* of the response unread on the connection, so that a caller about to send
\* its request finds neither unread bytes nor an unread response of an
\* earlier cycle.
C20_ResponseDrained ==
    /\ [][/\ Len(returned') = Len(returned) + 1
           /\ EndsDrained(returned'[Len(returned')])
           => unread' = <<>>]_vars
    /\ [](\A t \in Threads :
            pc[t] = "locked" => unread = <<>> /\ replies = <<>>)

\* A read answered with one byte too many has ended with the excess-length
\* exception, and the caller's next call holds the lock, about to send its
\* request on a connection with nothing left unread.
C20_Witness ==
    /\ \E e \in Cycles :
          /\ e.call.op = "retrieve"
          /\ e.kind = "Exception"
          /\ Len(e.resp.body) = ExpectedLength(e.call) + 1
    /\ pc[1] = "locked"
    /\ unread = <<>>

\* The threads inside a modify_subvolume call whose new_data is encoded.
EncodedWriters ==
    {t \in Threads : /\ pc[t] # "idle"
                     /\ cur[t].call.op = "modify"
                     /\ cur[t].body # <<>>}

\* C21 as worded: new_data is encoded under the guard, so a thread whose
\* new_data is encoded, and whose request is not yet answered, holds the
\* lock.
C21_EncodedUnderGuard == \A t \in EncodedWriters : lock = t

\* C21: new_data is encoded before the caller takes the guard and before
\* the write request is sent: a writer waiting for the lock, having never
\* held it in this call and having sent nothing, already has the encoded
\* body, and every write request on the wire carries the encoding of its
\* call's new_data.
C21_EncodedBeforeGuard ==
    /\ \A t \in Threads :
          pc[t] # "idle" /\ cur[t].call.op = "modify" =>
              /\ cur[t].body = encode_from_vigra_array(cur[t].call.new_data)
              /\ pc[t] = "ready" =>
                    lock # t /\ cur[t].nacq = 0 /\ cur[t].nreq = 0
    /\ \A i \in 1..Len(sent) :
          sent[i].method = "POST" =>
              sent[i].body = encode_from_vigra_array(sent[i].call.new_data)

\* A writer has its new_data encoded while another thread holds the lock.
C21_Witness ==
    \E t \in EncodedWriters :
        /\ pc[t] = "ready"
        /\ lock # 0 /\ lock # t

\* The threads inside the request/response section of a call.
InSection == {t \in Threads : pc[t] \in {"locked", "requested"}}

\* C22: whenever no call is inside its request/response section the lock is
\* free, and the lock is held only by a thread inside that section; the
\* step that ends a call, whether by return, ErrorResponse, decode failure
\* or excess-length failure, frees the lock.
C22_GuardReleased ==
    /\ [](/\ InSection = {} => lock = 0
          /\ lock # 0 => lock \in InSection)
    /\ [][\A t \in Threads :
             pc[t] = "requested" /\ pc'[t] = "idle" =>
                 /\ returned'[Len(returned')].kind \in
                        {"value", "ok", "ErrorResponse", "DecodeError",
                         "Exception"}
                 /\ lock' = 0]_vars

\* A call has ended in a decode failure, and a caller that took the lock
\* after it holds it now.
C22_Witness ==
    \E e \in Entries, t \in Threads :
        /\ e.kind = "DecodeError"
        /\ pc[t] = "locked" /\ lock = t
        /\ Pos(acquired, e.id) < Pos(acquired, cur[t].id)

\* A vector without its entry on axis a (1-based).
WithoutAxis(v, a) == SubSeq(v, 1, a - 1) \o SubSeq(v, a + 1, Len(v))

\* Axis a is the one the call's path leaves out.
RemovedFromPath(t, a) ==
    LET c == cur[t].call
    IN  /\ cur[t].rest_query.start = WithoutAxis(c.start, a)
        /\ cur[t].rest_query.roi_shape =
               WithoutAxis(VecSub(c.stop, c.start), a)

\* Axis a is the one whose extent a read replaces by the volume's full
\* extent before decoding, and cuts back to [start, stop) on return.
ReplacedAndSliced(c, a) ==
    LET ext == VecSub(c.stop, c.start)
        full == FullRoiShape(c.start, c.stop)
    IN  /\ full = [ext EXCEPT ![a] = shape[a]]
        /\ SelectChannels(Ramp(full, 0), c.start, c.stop) =
               [shape |-> ext,
                at |-> [x \in Coords(ext) |->
                           Ramp(full, 0).at[[x EXCEPT ![a] = @ + c.start[a]]]]]

\* Axis a is the one on which a write must cover the whole extent.
CheckedForCoverage(c, a) ==
    IncludesAllChannels(c.start, c.stop) <=>
        c.start[a] = 0 /\ c.stop[a] = shape[a]

\* C23: whatever axis order the metadata holds, one and the same axis is
\* left out of the path of a call, replaced by the full channel count and
\* sliced on return by a read, and checked for full coverage by a write.
C23_SameAxis ==
    \A t \in Threads :
        pc[t] # "idle" =>
            \E a \in 1..Len(shape) :
                /\ RemovedFromPath(t, a)
                /\ ReplacedAndSliced(cur[t].call, a)
                /\ CheckedForCoverage(cur[t].call, a)

\* With the channel axis last, a read of a valid range that the server
\* answered in full, with all channels of the region asked for, has ended
\* in a decode failure.
C23_Witness ==
    /\ channelIndex = Len(shape) - 1
    /\ \E e \in Reads :
          /\ ~InvalidRange(e.call.start, e.call.stop)
          /\ e.resp.status = 200
          /\ Len(e.resp.body) =
                Prod(e.resp.url.query.roi_shape) * NumChannels * ItemSize
          /\ e.kind = "DecodeError"

\* ---------------------------------------------------------------------------
\* The contents browser (pydvid/gui/contents_browser.py): a dialog in which
\* the user connects to a host and picks a dataset, a data name and a node.

\* At most this many connect attempts are made in one dialog.
MaxAttempts == 3

\* _datasets_info is None.
NoInfo == [held |-> FALSE, Datasets |-> <<>>]

\* _hostname is None.
NoHostname == [set |-> FALSE, name |-> ""]

\* _current_dset is None.
NoDset == -1

\* No item of the tree widget is selected.
NoSelection == [any |-> FALSE, dset |-> NoDset, name |-> ""]

\* No item of the node list is selected; node uuids are positive numbers,
\* ordered as sorted() orders the uuid strings.
NoNode == 0

\* The path label as the constructor leaves it.
NoLabel ==
    [set |-> FALSE, hostname |-> NoHostname, uuid |-> NoNode,
     dataname |-> [none |-> TRUE, text |-> ""]]

\* One entry of the "Datasets" list of a listing: DataMap is given in the
\* order in which keys() yields its names.
Dataset(id, names, nodes) ==
    [DatasetID |-> id, DataMap |-> names, Nodes |-> nodes]

\* The listings a server returns: no dataset, one dataset with two data
\* names, two datasets of which the second has no data yet.  A dataset's id
\* is its position in the list, which _populate_node_list relies on.
Listings ==
    { [held |-> TRUE, Datasets |-> <<>>],
      [held |-> TRUE,
       Datasets |-> <<Dataset(0, <<"grayscale", "labels">>, {2, 1})>>],
      [held |-> TRUE,
       Datasets |-> <<Dataset(0, <<"grayscale">>, {1}),
                      Dataset(1, <<>>, {3, 2})>>] }

\* What the user typed into the combobox, as the parts between "://".
HostTexts == { <<"localhost:8000">>, <<"http", "otherhost:8000">> }

\* How a connect attempt ends: with a listing, with a socket.error carrying
\* (errno, message), with a socket.timeout, which is a socket.error carrying
\* a message only, or with an HTTPException carrying a message.
Outcomes ==
    { [kind |-> "success", info |-> l, nargs |-> 0] : l \in Listings }
    \cup { [kind |-> "socket.error", info |-> NoInfo, nargs |-> 2],
           [kind |-> "socket.timeout", info |-> NoInfo, nargs |-> 1],
           [kind |-> "HTTPException", info |-> NoInfo, nargs |-> 1] }

\* The text the user may type as the name of a new data volume.
NewDataTexts == {"", "segmentation"}

\* The dialog after its constructor, in the given mode.
NewBrowser(mode) ==
    [mode |-> mode,
     datasets_info |-> NoInfo,
     current_dset |-> NoDset,
     hostname |-> NoHostname,
     connection |-> 0,
     data_enabled |-> FALSE,
     node_enabled |-> FALSE,
     new_data_enabled |-> FALSE,
     tree |-> <<>>,
     selected_data |-> NoSelection,
     node_list |-> <<>>,
     selected_node |-> NoNode,
     new_data_text |-> "",
     label |-> NoLabel,
     ok_enabled |-> TRUE,
     log |-> <<>>]

\* sorted(): the members of a set of numbers in ascending order.
RECURSIVE Sorted(_)
Sorted(S) ==
    IF S = {} THEN <<>>
    ELSE LET m == CHOOSE x \in S : \A y \in S : x <= y
         IN <<m>> \o Sorted(S \ {m})

\* get_selection: in specify_new mode the data name is the typed text; with
\* nothing selected in the tree the data name is None.
get_selection(b) ==
    [hostname |-> b.hostname,
     dataset_index |-> b.selected_data.dset,
     data_name |-> IF b.mode = "specify_new"
                   THEN [none |-> FALSE, text |-> b.new_data_text]
                   ELSE [none |-> ~b.selected_data.any,
                         text |-> b.selected_data.name],
     node_uuid |-> b.selected_node]

\* _update_display: the label shows the selection, and the ok button is
\* enabled unless the data name is the empty string.
UpdateDisplay(b) ==
    LET s == get_selection(b) IN
    [b EXCEPT !.label = [set |-> TRUE, hostname |-> b.hostname,
                         uuid |-> s.node_uuid, dataname |-> s.data_name],
              !.ok_enabled = (s.data_name.none \/ s.data_name.text # "")]

\* _populate_node_list: the list is emptied, which runs _update_display when
\* the widget signals the loss of its selection (emits); with a listing the
\* nodes of the dataset are shown in sorted order and the last is selected.
PopulateNodeList(b, dataset_index, emits) ==
    LET cleared == [b EXCEPT !.node_list = <<>>, !.selected_node = NoNode]
        afterClear == IF emits /\ b.selected_node # NoNode
                      THEN UpdateDisplay(cleared) ELSE cleared
    IN  IF ~b.datasets_info.held THEN afterClear
        ELSE LET all_uuids ==
                     Sorted(b.datasets_info.Datasets[dataset_index + 1].Nodes)
             IN UpdateDisplay(
                  [afterClear EXCEPT
                      !.node_list = all_uuids,
                      !.current_dset = dataset_index,
                      !.selected_node = IF all_uuids = <<>> THEN NoNode
                                        ELSE all_uuids[Len(all_uuids)]])

\* _handle_data_selection: nothing without a selected item; the node list is
\* filled anew when the item belongs to another dataset than the current.
HandleDataSelection(b, emits) ==
    IF ~b.selected_data.any THEN b
    ELSE UpdateDisplay(
            IF b.current_dset # b.selected_data.dset
            THEN PopulateNodeList(b, b.selected_data.dset, emits)
            ELSE b)

\* The items of the tree: one per dataset, with one child per data name.
TreeItems(info) ==
    [i \in 1..Len(info.Datasets) |->
        [dset |-> info.Datasets[i].DatasetID,
         names |-> info.Datasets[i].DataMap]]

\* _populate_datasets_tree: the tree is emptied and, with a listing, filled;
\* the first data item (select_existing) or the first dataset (specify_new)
\* becomes the selection, which runs _handle_data_selection.  Without any
\* dataset there is nothing to select (in select_existing mode the lookup of
\* the first child raises, after the tree was filled).
PopulateDatasetsTree(b, emits) ==
    LET cleared == [b EXCEPT !.tree = <<>>, !.selected_data = NoSelection]
    IN  IF ~b.datasets_info.held THEN cleared
        ELSE LET filled ==
                     [cleared EXCEPT !.tree = TreeItems(b.datasets_info)]
             IN IF filled.tree = <<>> THEN filled
                ELSE LET top == filled.tree[1]
                         first_item ==
                             IF b.mode = "select_existing"
                             THEN IF top.names = <<>> THEN NoSelection
                                  ELSE [any |-> TRUE, dset |-> top.dset,
                                        name |-> top.names[1]]
                             ELSE [any |-> TRUE, dset |-> top.dset,
                                   name |-> ""]
                     IN HandleDataSelection(
                          [filled EXCEPT !.selected_data = first_item],
                          emits)

\* new_hostname: what follows the first "://" of the text, if there is one.
StripScheme(text) == IF Len(text) > 1 THEN text[2] ELSE text[1]

\* The fields are reset before the server is queried.
ResetBeforeAttempt(b) ==
    [b EXCEPT !.datasets_info = NoInfo,
              !.current_dset = NoDset,
              !.hostname = NoHostname]

\* The try block: on success the listing, the hostname and the connection
\* are recorded.
QueryServer(b, new_hostname, o) ==
    IF o.kind = "success"
    THEN [b EXCEPT !.datasets_info = o.info,
                   !.hostname = [set |-> TRUE, name |-> new_hostname],
                   !.connection = @ + 1]
    ELSE b

\* The except clause of a socket.error formats args[1] and args[0], that of
\* an HTTPException args[0]: with fewer arguments the clause itself raises
\* IndexError, which leaves the handler.
FormatRaises(o) ==
    \/ o.kind \in {"socket.error", "socket.timeout"} /\ o.nargs < 2
    \/ o.kind = "HTTPException" /\ o.nargs < 1

\* After an error message the tree and the node list are emptied.
ShowError(b, o, emits) ==
    IF o.kind = "success" THEN b
    ELSE PopulateNodeList(PopulateDatasetsTree(b, emits), -1, emits)

\* The three panels are enabled exactly when a listing is held.
EnableContents(b) ==
    [b EXCEPT !.data_enabled = b.datasets_info.held,
              !.node_enabled = b.datasets_info.held,
              !.new_data_enabled = b.datasets_info.held]

\* _handle_new_hostname as a whole.
AfterNewHostname(b, text, o, emits) ==
    LET queried == QueryServer(ResetBeforeAttempt(b), StripScheme(text), o)
        logged == [queried EXCEPT !.log = Append(@, o.kind)]
    IN  IF FormatRaises(o) THEN logged
        ELSE PopulateDatasetsTree(
                EnableContents(ShowError(logged, o, emits)), emits)

\* The items of the tree the user can select: every item in select_existing
\* mode, the datasets only in specify_new mode.
SelectableItems(b) ==
    { [any |-> TRUE, dset |-> b.tree[i].dset, name |-> ""] :
          i \in 1..Len(b.tree) }
    \cup IF b.mode = "specify_new" THEN {}
         ELSE UNION { { [any |-> TRUE, dset |-> b.tree[i].dset,
                         name |-> b.tree[i].names[j]] :
                            j \in 1..Len(b.tree[i].names) } :
                      i \in 1..Len(b.tree) }

\* The user presses Connect (or Enter in the combobox).
HandleNewHostname ==
    /\ Len(browser.log) < MaxAttempts
    /\ \E text \in HostTexts, o \in Outcomes, emits \in BOOLEAN :
          browser' = AfterNewHostname(browser, text, o, emits)
    /\ UNCHANGED <<client, connection, conns, unread, admin, shape,
                   channelIndex, lock, sent, replies, vol, lastPost, pc, cur,
                   todo, invoked, acquired, sentLog, returned>>

\* The user clicks another item of the tree.
SelectData ==
    /\ browser.data_enabled
    /\ \E item \in SelectableItems(browser), emits \in BOOLEAN :
          /\ item # browser.selected_data
          /\ browser' = HandleDataSelection(
                            [browser EXCEPT !.selected_data = item], emits)
    /\ UNCHANGED <<client, connection, conns, unread, admin, shape,
                   channelIndex, lock, sent, replies, vol, lastPost, pc, cur,
                   todo, invoked, acquired, sentLog, returned>>

\* The user clicks another node of the list.
SelectNode ==
    /\ browser.node_enabled
    /\ \E i \in 1..Len(browser.node_list) :
          /\ browser.node_list[i] # browser.selected_node
          /\ browser' = UpdateDisplay(
                [browser EXCEPT !.selected_node = browser.node_list[i]])
    /\ UNCHANGED <<client, connection, conns, unread, admin, shape,
                   channelIndex, lock, sent, replies, vol, lastPost, pc, cur,
                   todo, invoked, acquired, sentLog, returned>>

\* The user edits the name of the new data volume.
EditNewData ==
    /\ browser.mode = "specify_new"
    /\ browser.new_data_enabled
    /\ \E text \in NewDataTexts :
          /\ text # browser.new_data_text
          /\ browser' = UpdateDisplay(
                [browser EXCEPT !.new_data_text = text])
    /\ UNCHANGED <<client, connection, conns, unread, admin, shape,
                   channelIndex, lock, sent, replies, vol, lastPost, pc, cur,
                   todo, invoked, acquired, sentLog, returned>>

\* A dialog is opened in either mode, before any client is constructed.
InitBrowser ==
    /\ \E mode \in {"select_existing", "specify_new"} :
          browser = NewBrowser(mode)
    /\ client = "Uninitialized"
    /\ connection = 0
    /\ conns = <<>>
    /\ unread = <<>>
    /\ admin = AdminIdle(<<>>, <<>>)
    /\ shape = <<>>
    /\ channelIndex = 0
    /\ lock = 0
    /\ sent = <<>>
    /\ replies = <<>>
    /\ vol = Ramp(VolumeShape, 300).at
    /\ lastPost = NoCall
    /\ pc = [t \in Threads |-> "idle"]
    /\ cur = [t \in Threads |-> NoCur]
    /\ todo = [t \in Threads |-> <<>>]
    /\ invoked = <<>>
    /\ acquired = <<>>
    /\ sentLog = <<>>
    /\ returned = <<>>

NextBrowser ==
    \/ HandleNewHostname
    \/ SelectData
    \/ SelectNode
    \/ EditNewData

SpecBrowser == InitBrowser /\ [][NextBrowser]_vars

\* The panels of the dialog are all enabled or all disabled.
PanelsEnabled(b) == b.data_enabled /\ b.node_enabled /\ b.new_data_enabled
PanelsDisabled(b) ==
    ~b.data_enabled /\ ~b.node_enabled /\ ~b.new_data_enabled

\* The last connect attempt failed.
LastAttemptFailed(b) ==
    b.log # <<>> /\ b.log[Len(b.log)] # "success"

\* C24: after any sequence of connect attempts the hostname is set exactly
\* when a listing is held, the three panels are enabled exactly when a
\* listing is held, and after a failed attempt no listing, hostname or
\* current dataset is held.
C24_ListingGovernsDialog ==
    /\ browser.hostname.set <=> browser.datasets_info.held
    /\ IF browser.datasets_info.held THEN PanelsEnabled(browser)
       ELSE PanelsDisabled(browser)
    /\ LastAttemptFailed(browser) =>
          /\ ~browser.datasets_info.held
          /\ ~browser.hostname.set
          /\ browser.current_dset = NoDset

\* After a successful attempt, a later attempt has ended in a socket
\* timeout: no listing is held, and the panels are still enabled and the
\* tree still shows the datasets of the earlier listing.
C24_Witness ==
    /\ \E i \in 1..Len(browser.log) : browser.log[i] = "success"
    /\ LastAttemptFailed(browser)
    /\ browser.log[Len(browser.log)] = "socket.timeout"
    /\ ~browser.datasets_info.held
    /\ PanelsEnabled(browser)
    /\ browser.tree # <<>>
====
